---- MODULE Spec2Model ----
(***************************************************************************)
(* Model of task/08-objects-tasks.js: the css selector builder (Selector   *)
(* and the cssSelectorBuilder facade).                                      *)
(*                                                                          *)
(* The heap is the sequence of the Selector objects allocated so far; a     *)
(* builder is named by its index in the heap.  A string is the sequence of  *)
(* its characters.  A fragment [value, type] of this.selectors is a record; *)
(* for type 'combine' the value [selector1, combinator, selector2] is held  *)
(* in the fields selector1, combinator, selector2 (0 and <<>> otherwise).   *)
(***************************************************************************)
EXTENDS Integers, Sequences, FiniteSets, TLC

VARIABLES heap, lastCall, ret

vars ==
  <<heap, lastCall, ret>>

-----------------------------------------------------------------------------
(* Bounds of the model.                                                     *)

MaxBuilders ==
  3

MaxFragments ==
  3

MaxChain ==
  6

StackLimit ==
  MaxBuilders + 1

Combinators ==
  {<<" ">>, <<"+">>}

-----------------------------------------------------------------------------
(* Outcomes of a call.                                                      *)

NoError ==
  "none"

OrderError ==
  "Selector parts should be arranged in the following order"

DuplicateError ==
  "Element, id and pseudo-element should not occur more then one time"

RangeError ==
  "Maximum call stack size exceeded"

-----------------------------------------------------------------------------
(* Selector: the constructor and the prototype.                             *)

Selector ==
  [selectors |-> <<>>, validSort |-> <<>>]

sortSelectors ==
  <<"element", "id", "class", "attr", "pseudoClass", "pseudoElement">>

\* Array.prototype.indexOf: the 0-based index of the first match, or -1.
indexOf(array, x) ==
  IF \E i \in 1..Len(array) : array[i] = x
  THEN (CHOOSE i \in 1..Len(array) :
          array[i] = x /\ \A j \in 1..(i - 1) : array[j] # x) - 1
  ELSE -1

\* The array [value, type] of a single-token call.
Token(value, type) ==
  [value |-> value, type |-> type,
   selector1 |-> 0, combinator |-> <<>>, selector2 |-> 0]

\* The array [[selector1, combinator, selector2], 'combine'].
Combination(selector1, combinator, selector2) ==
  [value |-> <<>>, type |-> "combine",
   selector1 |-> selector1, combinator |-> combinator, selector2 |-> selector2]

include(value, array) ==
  \E i \in 1..Len(array) : array[i].type = value.type

\* tryPush that drops a repeated category without throwing.
tryPush_silent(h, this, value) ==
  IF include(value, h[this].selectors)
  THEN [heap |-> h, err |-> NoError]
  ELSE [heap |-> [h EXCEPT ![this].selectors = Append(@, value)],
        err |-> NoError]

\* tryPush that pushes before it tests for a repeated category.
tryPush_pushFirst(h, this, value) ==
  IF include(value, h[this].selectors)
  THEN [heap |-> [h EXCEPT ![this].selectors = Append(@, value)],
        err |-> DuplicateError]
  ELSE [heap |-> [h EXCEPT ![this].selectors = Append(@, value)],
        err |-> NoError]

tryPush(h, this, value) ==
  IF include(value, h[this].selectors)
  THEN [heap |-> h, err |-> DuplicateError]
  ELSE [heap |-> [h EXCEPT ![this].selectors = Append(@, value)],
        err |-> NoError]

\* this.selectors.push(value)
push(h, this, value) ==
  [heap |-> [h EXCEPT ![this].selectors = Append(@, value)], err |-> NoError]

\* validate comparing with >= in place of >.
validate_strict(h, this, value) ==
  LET filled == IF Len(h[this].validSort) = 0
                THEN [i \in 1..Len(h[this].selectors) |->
                        h[this].selectors[i].type]
                ELSE h[this].validSort
      thrown == \E i \in 1..Len(filled) :
                  indexOf(sortSelectors, filled[i])
                    >= indexOf(sortSelectors, value)
  IN [heap |-> [h EXCEPT ![this].validSort = filled],
      err |-> IF thrown THEN OrderError ELSE NoError]

\* validate with validSort kept on the prototype, one array for all instances.
validate_shared(h, this, value) ==
  LET filled == IF Len(h[this].validSort) = 0
                THEN [i \in 1..Len(h[this].selectors) |->
                        h[this].selectors[i].type]
                ELSE h[this].validSort
      thrown == \E i \in 1..Len(filled) :
                  indexOf(sortSelectors, filled[i])
                    > indexOf(sortSelectors, value)
  IN [heap |-> [b \in 1..Len(h) |-> [h[b] EXCEPT !.validSort = filled]],
      err |-> IF thrown THEN OrderError ELSE NoError]

\* validate that compares with validSort as it was before filling it.
validate_checkFirst(h, this, value) ==
  LET filled == IF Len(h[this].validSort) = 0
                THEN [i \in 1..Len(h[this].selectors) |->
                        h[this].selectors[i].type]
                ELSE h[this].validSort
      thrown == \E i \in 1..Len(h[this].validSort) :
                  indexOf(sortSelectors, h[this].validSort[i])
                    > indexOf(sortSelectors, value)
  IN [heap |-> [h EXCEPT ![this].validSort = filled],
      err |-> IF thrown THEN OrderError ELSE NoError]

\* validate that fills validSort with the category of the last fragment only.
validate_fillLast(h, this, value) ==
  LET filled == IF Len(h[this].validSort) = 0 /\ Len(h[this].selectors) > 0
                THEN <<h[this].selectors[Len(h[this].selectors)].type>>
                ELSE h[this].validSort
      thrown == \E i \in 1..Len(filled) :
                  indexOf(sortSelectors, filled[i])
                    > indexOf(sortSelectors, value)
  IN [heap |-> [h EXCEPT ![this].validSort = filled],
      err |-> IF thrown THEN OrderError ELSE NoError]

\* validate that recomputes validSort from the fragments on every call.
validate_refresh(h, this, value) ==
  LET filled == [i \in 1..Len(h[this].selectors) |-> h[this].selectors[i].type]
      thrown == \E i \in 1..Len(filled) :
                  indexOf(sortSelectors, filled[i])
                    > indexOf(sortSelectors, value)
  IN [heap |-> [h EXCEPT ![this].validSort = filled],
      err |-> IF thrown THEN OrderError ELSE NoError]

validate(h, this, value) ==
  LET filled == IF Len(h[this].validSort) = 0
                THEN [i \in 1..Len(h[this].selectors) |->
                        h[this].selectors[i].type]
                ELSE h[this].validSort
      thrown == \E i \in 1..Len(filled) :
                  indexOf(sortSelectors, filled[i])
                    > indexOf(sortSelectors, value)
  IN [heap |-> [h EXCEPT ![this].validSort = filled],
      err |-> IF thrown THEN OrderError ELSE NoError]

\* A method that returns a copy of the builder in place of the builder.
returnThis_copy(r, this) ==
  [heap |-> IF r.err = NoError THEN Append(r.heap, r.heap[this]) ELSE r.heap,
   err |-> r.err,
   returns |-> IF r.err = NoError THEN Len(r.heap) + 1 ELSE 0]

\* return this, at the end of a method whose body ended as r; nothing is
\* returned (0) when the body threw.
returnThis(r, this) ==
  [heap |-> r.heap, err |-> r.err,
   returns |-> IF r.err = NoError THEN this ELSE 0]

\* element pushing directly, as class does.
element_push(h, this, value) ==
  LET v == validate(h, this, "element")
  IN returnThis(IF v.err # NoError THEN v
                ELSE push(v.heap, this, Token(value, "element")), this)

element(h, this, value) ==
  LET v == validate(h, this, "element")
  IN returnThis(IF v.err # NoError THEN v
                ELSE tryPush(v.heap, this, Token(value, "element")), this)

id(h, this, value) ==
  LET v == validate(h, this, "id")
  IN returnThis(IF v.err # NoError THEN v
                ELSE tryPush(v.heap, this, Token(value, "id")), this)

class(h, this, value) ==
  LET v == validate(h, this, "class")
  IN returnThis(IF v.err # NoError THEN v
                ELSE push(v.heap, this, Token(value, "class")), this)

attr(h, this, value) ==
  LET v == validate(h, this, "attr")
  IN returnThis(IF v.err # NoError THEN v
                ELSE push(v.heap, this, Token(value, "attr")), this)

pseudoClass(h, this, value) ==
  LET v == validate(h, this, "pseudoClass")
  IN returnThis(IF v.err # NoError THEN v
                ELSE push(v.heap, this, Token(value, "pseudoClass")), this)

pseudoElement(h, this, value) ==
  LET v == validate(h, this, "pseudoElement")
  IN returnThis(IF v.err # NoError THEN v
                ELSE tryPush(v.heap, this, Token(value, "pseudoElement")), this)

\* combine that moves the fragments of selector1 into the combination,
\* leaving selector1 empty.
combine_consuming(h, this, selector1, combinator, selector2) ==
  returnThis(tryPush([h EXCEPT ![selector1].selectors = <<>>], this,
                     Combination(selector1, combinator, selector2)),
             this)

combine(h, this, selector1, combinator, selector2) ==
  returnThis(tryPush(h, this, Combination(selector1, combinator, selector2)),
             this)

\* The method of the prototype that a single-token call of that name runs.
method(name, h, this, value) ==
  CASE name = "element" -> element(h, this, value)
    [] name = "id" -> id(h, this, value)
    [] name = "class" -> class(h, this, value)
    [] name = "attr" -> attr(h, this, value)
    [] name = "pseudoClass" -> pseudoClass(h, this, value)
    [] name = "pseudoElement" -> pseudoElement(h, this, value)

-----------------------------------------------------------------------------
(* stringify.                                                               *)

\* tokenStr without the closing bracket of an attribute.
tokenStr_noClose(type, value) ==
  CASE type = "element" -> value
    [] type = "id" -> <<"#">> \o value
    [] type = "class" -> <<".">> \o value
    [] type = "attr" -> <<"[">> \o value
    [] type = "pseudoClass" -> <<":">> \o value
    [] type = "pseudoElement" -> <<":", ":">> \o value
    [] OTHER -> <<>>

\* The six single-token cases of the switch; str stays '' for any other type.
tokenStr(type, value) ==
  CASE type = "element" -> value
    [] type = "id" -> <<"#">> \o value
    [] type = "class" -> <<".">> \o value
    [] type = "attr" -> <<"[">> \o value \o <<"]">>
    [] type = "pseudoClass" -> <<":">> \o value
    [] type = "pseudoElement" -> <<":", ":">> \o value
    [] OTHER -> <<>>

\* combineStr without the spaces around the combinator.
combineStr_noSpaces(left, combinator, right) ==
  left \o combinator \o right

\* case 'combine', given the two strings the recursive calls returned.
combineStr(left, combinator, right) ==
  left \o <<" ">> \o combinator \o <<" ">> \o right

RECURSIVE stringifyAt(_, _, _)
RECURSIVE reduce(_, _, _, _, _)

\* The callback of reduce applied to fragment cur; a recursive call beyond
\* the stack limit throws RangeError, which propagates to the outer caller.
callback(h, cur, depth) ==
  IF cur.type = "combine"
  THEN LET left == stringifyAt(h, cur.selector1, depth + 1)
       IN IF left.err # NoError THEN left
          ELSE LET right == stringifyAt(h, cur.selector2, depth + 1)
               IN IF right.err # NoError THEN right
                  ELSE [err |-> NoError,
                        str |-> combineStr(left.str, cur.combinator, right.str)]
  ELSE [err |-> NoError, str |-> tokenStr(cur.type, cur.value)]

reduce(h, array, i, prev, depth) ==
  IF i > Len(array) THEN [err |-> NoError, str |-> prev]
  ELSE LET s == callback(h, array[i], depth)
       IN IF s.err # NoError THEN s
          ELSE reduce(h, array, i + 1, prev \o s.str, depth)

stringifyAt(h, this, depth) ==
  IF depth > StackLimit THEN [err |-> RangeError, str |-> <<>>]
  ELSE reduce(h, h[this].selectors, 1, <<>>, depth)

stringify(h, this) ==
  stringifyAt(h, this, 1)

-----------------------------------------------------------------------------
(* The state machine: calls of the facade and chained calls on builders.    *)

Builders ==
  1..Len(heap)

Names ==
  {sortSelectors[i] : i \in 1..Len(sortSelectors)}

RECURSIVE fragmentCount(_, _)
fragmentCount(h, n) ==
  IF n = 0 THEN 0 ELSE Len(h[n].selectors) + fragmentCount(h, n - 1)

Fits(h) ==
  /\ Len(h) <= MaxBuilders
  /\ fragmentCount(h, Len(h)) <= MaxFragments

FitsChain(h) ==
  /\ Len(h) <= 1
  /\ fragmentCount(h, Len(h)) <= MaxChain

\* The tokens of the documented example elem#id.cls[attr]:pc::pe.
exampleValue(name) ==
  CASE name = "element" -> <<"e">>
    [] name = "id" -> <<"i">>
    [] name = "class" -> <<"c">>
    [] name = "attr" -> <<"a">>
    [] name = "pseudoClass" -> <<"p">>
    [] name = "pseudoElement" -> <<"q">>

\* The tokens a call of that name is given: the example's token and, for the
\* repeatable class, a second one.
valuesOf(name) ==
  IF name = "class" THEN {exampleValue(name), <<"d", "d">>}
  ELSE {exampleValue(name)}

Call(op, this, err, returned) ==
  [op |-> op, this |-> this, err |-> err, returned |-> returned]

Init ==
  /\ heap = <<>>
  /\ lastCall = Call("none", 0, NoError, 0)
  /\ ret = <<>>

\* cssSelectorBuilder.element .. pseudoElement: new Selector().name(value)
FacadeToken(name, value) ==
  LET this == Len(heap) + 1
      r == method(name, Append(heap, Selector), this, value)
  IN /\ heap' = r.heap
     /\ lastCall' = Call(name, this, r.err, r.returns)
     /\ ret' = <<>>

\* cssSelectorBuilder.combine that holds the combination in selector1 in place
\* of a new Selector.
FacadeCombine_reuse(selector1, combinator, selector2) ==
  LET r == combine(heap, selector1, selector1, combinator, selector2)
  IN /\ heap' = r.heap
     /\ lastCall' = Call("combine", selector1, r.err, r.returns)
     /\ ret' = <<>>

\* cssSelectorBuilder.combine: new Selector().combine(...)
FacadeCombine(selector1, combinator, selector2) ==
  LET this == Len(heap) + 1
      r == combine(Append(heap, Selector), this, selector1, combinator, selector2)
  IN /\ heap' = r.heap
     /\ lastCall' = Call("combine", this, r.err, r.returns)
     /\ ret' = <<>>

\* A chained call builder.name(value) on an existing builder.
ChainToken(this, name, value) ==
  LET r == method(name, heap, this, value)
  IN /\ heap' = r.heap
     /\ lastCall' = Call(name, this, r.err, r.returns)
     /\ ret' = <<>>

\* A chained call builder.combine(selector1, combinator, selector2).
ChainCombine(this, selector1, combinator, selector2) ==
  LET r == combine(heap, this, selector1, combinator, selector2)
  IN /\ heap' = r.heap
     /\ lastCall' = Call("combine", this, r.err, r.returns)
     /\ ret' = <<>>

\* stringify that consumes this.selectors while it renders them.
Stringify_consuming(this) ==
  LET r == stringify(heap, this)
  IN /\ heap' = [heap EXCEPT ![this].selectors = <<>>]
     /\ lastCall' = Call("stringify", this, r.err, 0)
     /\ ret' = r.str

\* builder.stringify()
Stringify(this) ==
  LET r == stringify(heap, this)
  IN /\ heap' = heap
     /\ lastCall' = Call("stringify", this, r.err, 0)
     /\ ret' = r.str

\* Any calls on any builders, within the bounds.
Next ==
  \/ \E name \in Names : \E value \in valuesOf(name) :
       FacadeToken(name, value) /\ Fits(heap')
  \/ \E s1 \in Builders, c \in Combinators, s2 \in Builders :
       FacadeCombine(s1, c, s2) /\ Fits(heap')
  \/ \E this \in Builders, name \in Names : \E value \in valuesOf(name) :
       ChainToken(this, name, value) /\ Fits(heap')
  \/ \E this \in Builders, s1 \in Builders, c \in Combinators, s2 \in Builders :
       ChainCombine(this, s1, c, s2) /\ Fits(heap')
  \/ \E this \in Builders : Stringify(this)

Spec ==
  Init /\ [][Next]_vars

\* Calls in which builders are combined by the facade only: no chained combine.
NextFacade ==
  \/ \E name \in Names : \E value \in valuesOf(name) :
       FacadeToken(name, value) /\ Fits(heap')
  \/ \E s1 \in Builders, c \in Combinators, s2 \in Builders :
       FacadeCombine(s1, c, s2) /\ Fits(heap')
  \/ \E this \in Builders, name \in Names : \E value \in valuesOf(name) :
       ChainToken(this, name, value) /\ Fits(heap')
  \/ \E this \in Builders : Stringify(this)

SpecFacade ==
  Init /\ [][NextFacade]_vars

\* One call chain cssSelectorBuilder.x(..).y(..)... with the example's tokens.
NextChain ==
  \/ \E name \in Names :
       FacadeToken(name, exampleValue(name)) /\ FitsChain(heap')
  \/ \E this \in Builders, name \in Names :
       ChainToken(this, name, exampleValue(name)) /\ FitsChain(heap')
  \/ \E this \in Builders, c \in Combinators :
       ChainCombine(this, this, c, this) /\ FitsChain(heap')
  \/ \E this \in Builders : Stringify(this)

SpecChain ==
  Init /\ [][NextChain]_vars

-----------------------------------------------------------------------------
(* Rectangle, getJSON and fromJSON.  An object is its prototype and its own *)
(* properties in insertion order; here the heap holds these objects, and    *)
(* ret is the value the last call returned (a number or a string).          *)

MaxSide ==
  12

Sides ==
  0..MaxSide

widthKey ==
  <<"w", "i", "d", "t", "h">>

heightKey ==
  <<"h", "e", "i", "g", "h", "t">>

SyntaxError ==
  "Unexpected token in JSON"

TypeError ==
  "getArea is not a function"

\* The value of property key of object obj.
get(obj, key) ==
  obj.fields[CHOOSE i \in 1..Len(obj.fields) : obj.fields[i].key = key].value

\* Rectangle with its height and width exchanged.
Rectangle_swapped(width, height) ==
  [proto |-> "Rectangle",
   fields |-> <<[key |-> widthKey, value |-> height],
                [key |-> heightKey, value |-> width]>>]

\* new Rectangle(width, height)
Rectangle(width, height) ==
  [proto |-> "Rectangle",
   fields |-> <<[key |-> widthKey, value |-> width],
                [key |-> heightKey, value |-> height]>>]

\* obj.getArea(): the method is found on Rectangle.prototype only.
getArea(obj) ==
  IF obj.proto = "Rectangle"
  THEN [err |-> NoError, value |-> get(obj, widthKey) * get(obj, heightKey)]
  ELSE [err |-> TypeError, value |-> 0]

digitChars ==
  <<"0", "1", "2", "3", "4", "5", "6", "7", "8", "9">>

isDigit(ch) ==
  \E d \in 1..10 : digitChars[d] = ch

digitValue(ch) ==
  (CHOOSE d \in 1..10 : digitChars[d] = ch) - 1

\* The decimal digits of a natural number.
RECURSIVE digitsOf(_)
digitsOf(n) ==
  IF n < 10 THEN <<digitChars[n + 1]>>
  ELSE digitsOf(n \div 10) \o <<digitChars[(n % 10) + 1]>>

\* JSON.stringify of an integer.
numberStr(n) ==
  IF n < 0 THEN <<"-">> \o digitsOf(-n) ELSE digitsOf(n)

\* JSON.stringify of the first n properties: "key":value, separated by commas.
RECURSIVE membersStr(_, _)
membersStr(fields, n) ==
  IF n = 0 THEN <<>>
  ELSE (IF n = 1 THEN <<>> ELSE membersStr(fields, n - 1) \o <<",">>)
         \o <<"\"">> \o fields[n].key \o <<"\"">> \o <<":">>
         \o numberStr(fields[n].value)

\* JSON.stringify of an object: its own properties, not its prototype's.
JSONstringify(obj) ==
  <<"{">> \o membersStr(obj.fields, Len(obj.fields)) \o <<"}">>

getJSON(obj) ==
  JSONstringify(obj)

\* The position of the first character at or after i that is not a space.
RECURSIVE skipSpaces(_, _)
skipSpaces(s, i) ==
  IF i <= Len(s) /\ s[i] = " " THEN skipSpaces(s, i + 1) ELSE i

at(s, i, ch) ==
  i <= Len(s) /\ s[i] = ch

RECURSIVE readDigits(_, _, _)
readDigits(s, i, acc) ==
  IF i <= Len(s) /\ isDigit(s[i])
  THEN readDigits(s, i + 1, acc * 10 + digitValue(s[i]))
  ELSE [err |-> NoError, value |-> acc, next |-> i]

\* A JSON integer at position i.
parseNumber(s, i) ==
  LET negative == at(s, i, "-")
      start == IF negative THEN i + 1 ELSE i
  IN IF ~(start <= Len(s) /\ isDigit(s[start]))
     THEN [err |-> SyntaxError, value |-> 0, next |-> i]
     ELSE LET d == readDigits(s, start, 0)
          IN [err |-> NoError,
              value |-> IF negative THEN 0 - d.value ELSE d.value,
              next |-> d.next]

\* The characters of a JSON string up to its closing quote; i is the position
\* after the opening quote.
RECURSIVE readString(_, _, _)
readString(s, i, acc) ==
  IF i > Len(s) THEN [err |-> SyntaxError, value |-> acc, next |-> i]
  ELSE IF s[i] = "\"" THEN [err |-> NoError, value |-> acc, next |-> i + 1]
  ELSE readString(s, i + 1, Append(acc, s[i]))

\* The members "key": value, ... } of a JSON object from position i on.
RECURSIVE parseMembers(_, _, _)
parseMembers(s, i, acc) ==
  LET k == skipSpaces(s, i)
  IN IF ~at(s, k, "\"") THEN [err |-> SyntaxError, fields |-> acc]
     ELSE LET key == readString(s, k + 1, <<>>)
              colon == skipSpaces(s, key.next)
          IN IF key.err # NoError \/ ~at(s, colon, ":")
             THEN [err |-> SyntaxError, fields |-> acc]
             ELSE LET number == parseNumber(s, skipSpaces(s, colon + 1))
                      after == skipSpaces(s, number.next)
                      fields == Append(acc, [key |-> key.value,
                                             value |-> number.value])
                  IN IF number.err # NoError
                     THEN [err |-> SyntaxError, fields |-> acc]
                     ELSE IF at(s, after, ",")
                     THEN parseMembers(s, after + 1, fields)
                     ELSE IF at(s, after, "}")
                            /\ skipSpaces(s, after + 1) > Len(s)
                     THEN [err |-> NoError, fields |-> fields]
                     ELSE [err |-> SyntaxError, fields |-> acc]

\* JSON.parse of the text of an object with integer properties.
JSONparse(text) ==
  LET open == skipSpaces(text, 1)
      first == skipSpaces(text, open + 1)
  IN IF ~at(text, open, "{") THEN [err |-> SyntaxError, fields |-> <<>>]
     ELSE IF at(text, first, "}") /\ skipSpaces(text, first + 1) > Len(text)
     THEN [err |-> NoError, fields |-> <<>>]
     ELSE parseMembers(text, open + 1, <<>>)

\* fromJSON that returns the parsed object as it is.
fromJSON_noProto(proto, json) ==
  LET parsed == JSONparse(json)
  IN [err |-> parsed.err,
      obj |-> [proto |-> "Object", fields |-> parsed.fields]]

\* Object.setPrototypeOf(JSON.parse(json), proto)
fromJSON(proto, json) ==
  LET parsed == JSONparse(json)
  IN [err |-> parsed.err,
      obj |-> [proto |-> proto, fields |-> parsed.fields]]

\* The text of the documented example of fromJSON.
exampleJSON ==
  <<"{", "\"">> \o widthKey \o <<"\"", ":", "1", "0", ",", " ", "\"">>
    \o heightKey \o <<"\"", ":", "2", "0", "}">>

\* var r = new Rectangle(width, height), the first object made.
NewRectangle(width, height) ==
  /\ heap = <<>>
  /\ heap' = <<Rectangle(width, height)>>
  /\ lastCall' = [op |-> "Rectangle", this |-> 1, err |-> NoError,
                  returned |-> 1, args |-> <<width, height>>]
  /\ ret' = <<>>

\* heap[this].getArea()
GetArea(this) ==
  LET r == getArea(heap[this])
  IN /\ heap' = heap
     /\ lastCall' = Call("getArea", this, r.err, 0)
     /\ ret' = r.value

\* getJSON(heap[this])
GetJSON(this) ==
  /\ heap' = heap
  /\ lastCall' = Call("getJSON", this, NoError, 0)
  /\ ret' = getJSON(heap[this])

\* fromJSON(Rectangle.prototype, json), json being the string that
\* getJSON(heap[lastCall.this]) has just returned.
FromJSON ==
  /\ lastCall.op = "getJSON"
  /\ Len(heap) = 1
  /\ LET r == fromJSON("Rectangle", ret)
     IN /\ heap' = IF r.err = NoError THEN Append(heap, r.obj) ELSE heap
        /\ lastCall' = Call("fromJSON", lastCall.this, r.err,
                            IF r.err = NoError THEN Len(heap) + 1 ELSE 0)
        /\ ret' = <<>>

\* fromJSON(Rectangle.prototype, '{"width":10, "height":20}')
FromJSONExample ==
  /\ heap = <<>>
  /\ LET r == fromJSON("Rectangle", exampleJSON)
     IN /\ heap' = IF r.err = NoError THEN Append(heap, r.obj) ELSE heap
        /\ lastCall' = Call("fromJSON", 0, r.err,
                            IF r.err = NoError THEN Len(heap) + 1 ELSE 0)
        /\ ret' = <<>>

NextObjects ==
  \/ \E width \in Sides, height \in Sides : NewRectangle(width, height)
  \/ \E this \in Builders : GetArea(this)
  \/ \E this \in Builders : GetJSON(this)
  \/ FromJSON
  \/ FromJSONExample

SpecObjects ==
  Init /\ [][NextObjects]_vars

-----------------------------------------------------------------------------
(* Two copies of one builder, heap[1] and heap[2], that are given the same  *)
(* calls, while failing calls are also made on heap[1] alone.  heap[3] is   *)
(* the builder cssSelectorBuilder.element('e'), the operand of combine.     *)

MaxTwin ==
  4

TwinCall(op, both, err, twinErr, twinRet) ==
  [op |-> op, this |-> 1, both |-> both, err |-> err, returned |-> 0,
   twinErr |-> twinErr, twinRet |-> twinRet]

InitTwin ==
  /\ heap = <<Selector, Selector,
              element(<<Selector>>, 1, exampleValue("element")).heap[1]>>
  /\ lastCall = TwinCall("none", FALSE, NoError, NoError, <<>>)
  /\ ret = <<>>

\* The same single-token call on both copies.
TwinToken(name, value) ==
  LET r1 == method(name, heap, 1, value)
      r2 == method(name, r1.heap, 2, value)
  IN /\ Len(r1.heap[1].selectors) <= MaxTwin
     /\ Len(r2.heap[2].selectors) <= MaxTwin
     /\ heap' = r2.heap
     /\ lastCall' = TwinCall(name, TRUE, r1.err, r2.err, <<>>)
     /\ ret' = <<>>

\* The same combine call on both copies.
TwinCombine(combinator) ==
  LET r1 == combine(heap, 1, 3, combinator, 3)
      r2 == combine(r1.heap, 2, 3, combinator, 3)
  IN /\ Len(r1.heap[1].selectors) <= MaxTwin
     /\ Len(r2.heap[2].selectors) <= MaxTwin
     /\ heap' = r2.heap
     /\ lastCall' = TwinCall("combine", TRUE, r1.err, r2.err, <<>>)
     /\ ret' = <<>>

\* stringify() on both copies.
TwinStringify ==
  LET r1 == stringify(heap, 1)
      r2 == stringify(heap, 2)
  IN /\ heap' = heap
     /\ lastCall' = TwinCall("stringify", TRUE, r1.err, r2.err, r2.str)
     /\ ret' = r1.str

\* A single-token call that fails, made on the first copy only.
FailingToken(name, value) ==
  LET r1 == method(name, heap, 1, value)
  IN /\ r1.err # NoError
     /\ heap' = r1.heap
     /\ lastCall' = TwinCall(name, FALSE, r1.err, NoError, <<>>)
     /\ ret' = <<>>

\* A combine call that fails, made on the first copy only.
FailingCombine(combinator) ==
  LET r1 == combine(heap, 1, 3, combinator, 3)
  IN /\ r1.err # NoError
     /\ heap' = r1.heap
     /\ lastCall' = TwinCall("combine", FALSE, r1.err, NoError, <<>>)
     /\ ret' = <<>>

NextTwin ==
  \/ \E name \in Names : TwinToken(name, exampleValue(name))
  \/ \E c \in Combinators : TwinCombine(c)
  \/ TwinStringify
  \/ \E name \in Names : FailingToken(name, exampleValue(name))
  \/ \E c \in Combinators : FailingCombine(c)

SpecTwin ==
  InitTwin /\ [][NextTwin]_vars

-----------------------------------------------------------------------------
(* Properties.                                                              *)

Unique ==
  {"element", "id", "pseudoElement"}

Errors ==
  {OrderError, DuplicateError}

rank(type) ==
  indexOf(sortSelectors, type)

selectorsOf(b) ==
  heap[b].selectors

typesOf(b) ==
  [i \in 1..Len(selectorsOf(b)) |-> selectorsOf(b)[i].type]

holds(b, type) ==
  \E i \in 1..Len(selectorsOf(b)) : selectorsOf(b)[i].type = type

\* C1: in every reachable builder the non-combinator fragments are in
\* non-decreasing rank order element < id < class < attr < pseudoClass <
\* pseudoElement.
C1_OrderInvariant ==
  \A b \in Builders : \A i, j \in 1..Len(selectorsOf(b)) :
    (i < j /\ typesOf(b)[i] # "combine" /\ typesOf(b)[j] # "combine")
      => rank(typesOf(b)[i]) <= rank(typesOf(b)[j])

\* C2: in every reachable builder each of element, id and pseudoElement
\* occurs at most once in the fragment sequence.
C2_Uniqueness ==
  \A b \in Builders : \A c \in Unique :
    Cardinality({i \in 1..Len(selectorsOf(b)) : typesOf(b)[i] = c}) <= 1

\* A repeated element was attempted on a builder that holds other fragments
\* after its element, and the builder still holds one element.
C2_Witness ==
  /\ lastCall.op = "element"
  /\ lastCall.err = DuplicateError
  /\ Len(selectorsOf(lastCall.this)) >= 2
  /\ typesOf(lastCall.this)[1] = "element"

\* C3: on every reachable builder that holds a fragment of category c in
\* {element, id, pseudoElement}, the call for c fails with the duplicate
\* error, whatever else the builder holds.
C3_DuplicateError ==
  \A b \in Builders : \A c \in Unique :
    holds(b, c) =>
      \A value \in valuesOf(c) : method(c, heap, b, value).err = DuplicateError

\* A second id was rejected as a duplicate on a builder whose id is followed
\* by another fragment.
C3_Witness ==
  /\ lastCall.op = "id"
  /\ lastCall.err = DuplicateError
  /\ \E i \in 1..Len(selectorsOf(lastCall.this)) :
       /\ typesOf(lastCall.this)[i] = "id"
       /\ i < Len(selectorsOf(lastCall.this))

\* C4: a call that fails, with the order error or the duplicate error,
\* leaves every builder's fragment sequence as it was before the call.
C4_FailedCallNoEffect ==
  [][lastCall'.err \in Errors =>
       /\ Len(heap') = Len(heap)
       /\ \A b \in Builders : heap'[b].selectors = heap[b].selectors]_vars

\* A call failed with the order error on a builder, after validate filled
\* validSort.
C4_Witness ==
  /\ lastCall.err = OrderError
  /\ Len(selectorsOf(lastCall.this)) >= 1
  /\ heap[lastCall.this].validSort # <<>>

\* C5: a single-token call of category c succeeds and appends its fragment
\* whenever no non-combinator fragment present has a rank above c's and, for
\* c in {element, id, pseudoElement}, no fragment of category c is present.
C5_InOrderSucceeds ==
  \A b \in Builders : \A c \in Names :
    ( /\ \A i \in 1..Len(selectorsOf(b)) :
           typesOf(b)[i] # "combine" => rank(typesOf(b)[i]) <= rank(c)
      /\ c \in Unique => ~holds(b, c) )
    => \A value \in valuesOf(c) :
         LET r == method(c, heap, b, value)
         IN /\ r.err = NoError
            /\ r.heap[b].selectors = Append(selectorsOf(b), Token(value, c))

\* The full chain was built: the builder holds the six categories in order,
\* the last successful call being pseudoElement.
C5_Witness ==
  /\ lastCall.op = "pseudoElement"
  /\ lastCall.err = NoError
  /\ typesOf(lastCall.this) = sortSelectors

\* C6: combine never fails, on any reachable builder.
C6_CombineNeverFails ==
  lastCall.op = "combine" => lastCall.err = NoError

prefixOf(type) ==
  CASE type = "id" -> <<"#">>
    [] type = "class" -> <<".">>
    [] type = "attr" -> <<"[">>
    [] type = "pseudoClass" -> <<":">>
    [] type = "pseudoElement" -> <<":", ":">>
    [] OTHER -> <<>>

suffixOf(type) ==
  IF type = "attr" THEN <<"]">> ELSE <<>>

\* The first n fragments of array, each in its textual form, with no
\* separator.
RECURSIVE concatenation(_, _)
concatenation(array, n) ==
  IF n = 0 THEN <<>>
  ELSE concatenation(array, n - 1)
         \o prefixOf(array[n].type) \o array[n].value \o suffixOf(array[n].type)

\* C7: stringify() on a builder of single-token fragments returns the
\* concatenation, in fragment order and with no separator, of element ->
\* token, id -> '#'+token, class -> '.'+token, attr -> '['+token+']',
\* pseudoClass -> ':'+token, pseudoElement -> '::'+token.
C7_StringifyRendering ==
  (lastCall.op = "stringify" /\ ~holds(lastCall.this, "combine"))
    => /\ lastCall.err = NoError
       /\ ret = concatenation(selectorsOf(lastCall.this),
                              Len(selectorsOf(lastCall.this)))

\* stringify() returned e#i.c[a]:p::q for the full chain.
C7_Witness ==
  /\ lastCall.op = "stringify"
  /\ typesOf(lastCall.this) = sortSelectors
  /\ ret = <<"e", "#", "i", ".", "c", "[", "a", "]", ":", "p", ":", ":", "q">>

soleCombine(b) ==
  Len(selectorsOf(b)) = 1 /\ typesOf(b)[1] = "combine"

\* C8: stringify() on the builder of the facade's combine(L, op, R) equals
\* L.stringify() + ' ' + op + ' ' + R.stringify(), recursively for nested
\* combinations (and throws when L.stringify() or R.stringify() throws).
C8_CombineRendering ==
  (lastCall.op = "stringify" /\ soleCombine(lastCall.this))
    => LET f == selectorsOf(lastCall.this)[1]
           left == stringify(heap, f.selector1)
           right == stringify(heap, f.selector2)
       IN IF left.err # NoError \/ right.err # NoError
          THEN lastCall.err # NoError
          ELSE /\ lastCall.err = NoError
               /\ ret = left.str \o <<" ">> \o f.combinator \o <<" ">> \o right.str

\* stringify() returned the rendering of combine(L, ' ', combine(..)): a
\* nested combination with three consecutive spaces.
C8_Witness ==
  /\ lastCall.op = "stringify"
  /\ lastCall.err = NoError
  /\ soleCombine(lastCall.this)
  /\ LET f == selectorsOf(lastCall.this)[1]
     IN /\ f.combinator = <<" ">>
        /\ soleCombine(f.selector2)
        /\ ~holds(f.selector1, "combine")
        /\ \E i \in 1..(Len(ret) - 2) :
             ret[i] = " " /\ ret[i + 1] = " " /\ ret[i + 2] = " "

\* C9: stringify() changes no builder, and a second stringify() right after
\* the first, on the same builder, returns the same string.
C9_StringifyPure ==
  [][lastCall'.op = "stringify" =>
       /\ heap' = heap
       /\ (lastCall.op = "stringify" /\ lastCall.this = lastCall'.this)
            => (ret' = ret /\ lastCall'.err = lastCall.err)]_vars

\* stringify() returned the string of a builder that holds a combination of
\* other builders.
C9_Witness ==
  /\ lastCall.op = "stringify"
  /\ lastCall.err = NoError
  /\ ret # <<>>
  /\ holds(lastCall.this, "combine")
  /\ Len(selectorsOf(lastCall.this)) >= 2

\* The outcome of every builder call on builder b of heap h.
outcomes(h, b) ==
  [c \in Names \cup {"combine"} |->
     IF c = "combine" THEN combine(h, b, b, <<"+">>, b).err
     ELSE method(c, h, b, exampleValue(c)).err]

\* C10: a facade call returns a fresh builder holding exactly one fragment,
\* and a call on one builder, successful or failing, changes neither the
\* fragment sequence of another builder nor the outcome of the calls that
\* may follow on it.
C10_FacadeIndependence ==
  [][/\ Len(heap') > Len(heap) =>
          /\ Len(heap') = Len(heap) + 1
          /\ lastCall'.this = Len(heap')
          /\ lastCall'.err = NoError
          /\ Len(heap'[Len(heap')].selectors) = 1
     /\ \A b \in Builders :
          b # lastCall'.this =>
            /\ heap'[b].selectors = heap[b].selectors
            /\ outcomes(heap', b) = outcomes(heap, b)]_vars

\* A call failed on one builder while another builder, made by the facade
\* after it, holds fragments of its own.
C10_Witness ==
  /\ Len(heap) >= 2
  /\ lastCall.this = 1
  /\ lastCall.err = OrderError
  /\ Len(selectorsOf(2)) >= 1
  /\ heap[1].validSort # heap[2].validSort

\* C11: a successful builder call returns the builder it was called on and
\* extends that builder's fragment sequence by exactly one fragment at the
\* end, the fragments already present staying where they were.
C11_AppendOnly ==
  [][(lastCall'.err = NoError /\ lastCall'.op # "stringify") =>
       LET t == lastCall'.this
           before == IF t \in Builders THEN heap[t].selectors ELSE <<>>
       IN /\ lastCall'.returned = t
          /\ Len(heap'[t].selectors) = Len(before) + 1
          /\ SubSeq(heap'[t].selectors, 1, Len(before)) = before]_vars

\* A third chained call succeeded and returned the builder it was made on.
C11_Witness ==
  /\ lastCall.op \in Names
  /\ lastCall.err = NoError
  /\ lastCall.returned = lastCall.this
  /\ Len(selectorsOf(lastCall.this)) = 3

\* The builders that the combinations held by builder t of heap h refer to.
operandsOf(h, t) ==
  UNION {{h[t].selectors[i].selector1, h[t].selectors[i].selector2} :
           i \in {j \in 1..Len(h[t].selectors) :
                    h[t].selectors[j].type = "combine"}}

\* C12 as stated: no call on a builder that holds combine(left, op, right),
\* the combine call included, changes the fragment sequence of left or right.
C12_OperandsUntouched ==
  [][\A s \in operandsOf(heap', lastCall'.this) :
       s \in Builders /\ heap'[s].selectors = heap[s].selectors]_vars

\* C12 amended: no call on a builder that holds combine(left, op, right),
\* the combine call included, changes the fragment sequence of left or right,
\* provided the operand is not the holding builder itself.
C12_DistinctOperandsUntouched ==
  [][\A s \in operandsOf(heap', lastCall'.this) :
       s # lastCall'.this =>
         s \in Builders /\ heap'[s].selectors = heap[s].selectors]_vars

\* A single-token call succeeded on a builder that holds a combination of
\* two other builders, which still hold their fragments.
C12_Witness ==
  /\ lastCall.op \in Names
  /\ lastCall.err = NoError
  /\ operandsOf(heap, lastCall.this) # {}
  /\ \A s \in operandsOf(heap, lastCall.this) :
       s # lastCall.this /\ Len(selectorsOf(s)) >= 1

C14_RectangleArea ==
  [][/\ lastCall'.op = "Rectangle" =>
          /\ get(heap'[lastCall'.returned], widthKey) = lastCall'.args[1]
          /\ get(heap'[lastCall'.returned], heightKey) = lastCall'.args[2]
     /\ lastCall'.op = "getArea" =>
          /\ heap' = heap
          /\ lastCall'.err = NoError
          /\ ret' = get(heap[lastCall'.this], widthKey)
                      * get(heap[lastCall'.this], heightKey)]_vars

\* getArea() returned 84 on new Rectangle(7, 12).
C14_Witness ==
  /\ lastCall.op = "getArea"
  /\ Len(heap) = 1
  /\ get(heap[1], widthKey) = 7
  /\ get(heap[1], heightKey) = 12
  /\ ret = 84

\* C15: the builder that the facade returns for category c1 rejects a chained
\* call of any category c2 of lower rank with the order error, not with the
\* duplicate error.
C15_SecondCallOrder ==
  \A b \in Builders :
    (Len(selectorsOf(b)) = 1 /\ typesOf(b)[1] \in Names) =>
      \A c2 \in Names :
        rank(c2) < rank(typesOf(b)[1]) =>
          \A value \in valuesOf(c2) :
            method(c2, heap, b, value).err = OrderError

\* class('c').element('e') failed with the order error.
C15_Witness ==
  /\ lastCall.op = "element"
  /\ lastCall.err = OrderError
  /\ typesOf(lastCall.this) = <<"class">>

\* C16: of two copies of a builder, one of which was also given failing
\* calls, every later call has the same outcome on both, and both hold the
\* same fragment sequence and return the same string from stringify().
C16_FailedCallInvisible ==
  /\ heap[1].selectors = heap[2].selectors
  /\ lastCall.both =>
       /\ lastCall.err = lastCall.twinErr
       /\ lastCall.op = "stringify" => ret = lastCall.twinRet

\* A call made on both copies succeeded on both after a failing call had
\* filled validSort on the first copy only, so that the two caches differ.
C16_Witness ==
  /\ lastCall.both
  /\ lastCall.op \in Names
  /\ lastCall.err = NoError
  /\ heap[1].validSort # <<>>
  /\ heap[2].validSort # <<>>
  /\ heap[1].validSort # heap[2].validSort

\* The builders reached from the builders of set in at most n steps through
\* combinator fragments.
RECURSIVE reachFrom(_, _)
reachFrom(set, n) ==
  IF n = 0 THEN set
  ELSE reachFrom(set \cup UNION {operandsOf(heap, x) : x \in set}, n - 1)

selfReachable(b) ==
  b \in reachFrom(operandsOf(heap, b), Len(heap))

\* C17: when builders are combined by the facade's combine only, no builder
\* is reachable from itself through combinator fragments and stringify()
\* returns on every builder.
C17_FacadeStringifyReturns ==
  /\ \A b \in Builders :
       ~selfReachable(b) /\ stringify(heap, b).err = NoError
  /\ lastCall.op = "stringify" => lastCall.err = NoError

\* stringify() returned on a combination whose operand is a combination.
C17_Witness ==
  /\ lastCall.op = "stringify"
  /\ lastCall.err = NoError
  /\ lastCall.this = 3
  /\ 2 \in operandsOf(heap, 3)
  /\ 1 \in operandsOf(heap, 2)
  /\ Len(ret) >= 7

\* validSort of builder b in heap h is empty or the categories of a non-empty
\* prefix of b's fragments.
cachedPrefix(h, b) ==
  LET cached == h[b].validSort
  IN \/ Len(cached) = 0
     \/ /\ Len(cached) <= Len(h[b].selectors)
        /\ \A i \in 1..Len(cached) : cached[i] = h[b].selectors[i].type

\* C18: in every reachable state each builder's validSort is empty or the
\* categories of a non-empty prefix of its fragment sequence, and no call,
\* successful or failing, changes a validSort that is not empty.
C18_ValidSortCache ==
  /\ [](\A b \in Builders : cachedPrefix(heap, b))
  /\ [][\A b \in Builders :
          Len(heap[b].validSort) > 0
            => heap'[b].validSort = heap[b].validSort]_vars

\* A failing call on a builder whose validSort covers a strict prefix of its
\* fragments.
C18_Witness ==
  /\ lastCall.err = OrderError
  /\ lastCall.this \in Builders
  /\ Len(heap[lastCall.this].validSort) > 0
  /\ Len(heap[lastCall.this].validSort) < Len(heap[lastCall.this].selectors)

====
